---- MODULE Spec2Model ----
(***************************************************************************)
(* Model of src/server.cpp: a single-threaded TCP server built on an       *)
(* edge-triggered epoll instance.                                          *)
(*                                                                         *)
(* The server is one sequential process: pc is its position in main /      *)
(* event_loop / accept_new_connections / read_input_data, and every        *)
(* system call it makes is one step.  The environment (clients and the     *)
(* kernel) interleaves with the server between system calls.               *)
(*                                                                         *)
(* A connection's byte stream is identified by stream positions: client c  *)
(* has written the bytes 0 .. wr[c]-1, the server has read 0 .. rd[c]-1,   *)
(* and nul[c] is the set of positions that hold the byte 0.  Every other   *)
(* byte is non-zero.                                                       *)
(***************************************************************************)
EXTENDS Integers, Sequences, FiniteSets, TLC

\* ---------------------------------------------------------------- bounds
NumClients == 2      \* clients that may connect
MaxEnvSteps == 4     \* client events and kernel faults per run

\* ------------------------------------------------------ program constants
BufSize == 512       \* char buf[512]
MAX_EVENTS == 128    \* constexpr int MAX_EVENTS
ExpectedArgc == 2    \* if(argc != 2)

Clients == 1 .. NumClients
MaxFd == 4 + NumClients
FDs == 0 .. MaxFd
ArgCounts == {1, 2, 3}

\* What one client write() may carry: n bytes, with a zero byte at offset
\* nul of the write (-1: no zero byte).
Writes ==
    { [n |-> 4, nul |-> -1], [n |-> 4, nul |-> 1], [n |-> 1500, nul |-> -1] }

VARIABLES
    pc,                 \* position of the server process
    argc,               \* main's argc
    exitStatus,         \* "running", "failure" or "success"
    setup,              \* the setup calls made so far, each with its outcome
    errno,              \* errno as left by the last failing call
    server_fd, efd,     \* main's locals (-1: not yet assigned)
    fds,                \* the process's descriptor table: fd -> owner
    nonblock,           \* descriptors with O_NONBLOCK set
    listening,          \* listen() has succeeded on the server socket
    lsnErr,             \* an error condition is pending on the listener
    acceptQ,            \* the kernel's queue of established connections
    monitored,          \* the epoll interest set
    ready,              \* the epoll ready list (edge-triggered)
    events_buffer,      \* event_loop's events_buffer
    new_events_count,   \* event_loop's new_events_count
    i,                  \* event_loop's loop index
    client_socket_fd,   \* read_input_data's parameter
    pass,               \* the drain pass of read_input_data under way: the
                        \* stream position, the bytes available and the
                        \* length of the log when it started
    log,                \* what was written to stdout / stderr, in order
    registrations,      \* the epoll_ctl(EPOLL_CTL_ADD) calls made, in order
    cstate,             \* per client: "idle", "queued", "accepted", "closed"
                        \* (by the server), "refused" (dropped from the queue)
    wr, rd, nul,        \* per client: bytes written, bytes read, zero bytes
    eof, rst,           \* per client: write side shut down / reset sent
    steps               \* client events and kernel faults so far

envVars == <<cstate, wr, rd, nul, eof, rst>>
kernVars == <<fds, nonblock, listening, lsnErr, acceptQ, monitored, ready>>
loopVars == <<events_buffer, new_events_count, i, client_socket_fd, pass>>
vars ==
    <<pc, argc, exitStatus, setup, errno, server_fd, efd, fds, nonblock, listening,
      lsnErr, acceptQ, monitored, ready, events_buffer, new_events_count, i,
      client_socket_fd, pass, log, registrations, cstate, wr, rd, nul, eof, rst,
      steps>>

\* ------------------------------------------------------- descriptor table
Free == [kind |-> "free", id |-> 0]
Std == [kind |-> "std", id |-> 0]
Listener == [kind |-> "listener", id |-> 0]
Epoll == [kind |-> "epoll", id |-> 0]
Conn(c) == [kind |-> "conn", id |-> c]

IsOpen(fd) == fd \in FDs /\ fds[fd] # Free
IsConn(fd) == fd \in FDs /\ fds[fd].kind = "conn"

\* The kernel hands out the lowest unused descriptor number.
LowestFree ==
    CHOOSE fd \in FDs : fds[fd] = Free /\ \A g \in FDs : g < fd => fds[g] # Free

Min(a, b) == IF a < b THEN a ELSE b
Range(s) == { s[k] : k \in 1 .. Len(s) }
Remove(s, x) == SelectSeq(s, LAMBDA y : y # x)

\* ------------------------------------------------------------- log lines
Line(kind, fd, conn, from, count, len, idx) ==
    [kind |-> kind, fd |-> fd, conn |-> conn, from |-> from, count |-> count,
     len |-> len, idx |-> idx]
Perror(what) == Line("perror:" \o what, -1, 0, 0, 0, 0, -1)
Usage == Line("usage", -1, 0, 0, 0, 0, -1)
AcceptedLine(fd, c) == Line("accepted", fd, c, 0, 0, 0, -1)
ClosedLine(fd, c) == Line("closed", fd, c, 0, 0, 0, -1)
\* One "incoming data" line: the chunk read from stream positions
\* from .. from+count-1, of which len bytes were printed; idx is the buffer
\* index the terminator was stored at.
DataLine(fd, c, from, count, len, idx) == Line("data", fd, c, from, count, len, idx)

\* ----------------------------------------------------------------- epoll
\* The event mask the kernel reports for a descriptor, from its state now.
ConnMask(c) ==
    [in |-> wr[c] > rd[c] \/ eof[c] \/ rst[c], err |-> rst[c], hup |-> rst[c]]

Mask(fd) ==
    IF fds[fd] = Listener
    THEN [in |-> acceptQ # <<>>, err |-> lsnErr, hup |-> FALSE]
    ELSE IF fds[fd].kind = "conn"
    THEN ConnMask(fds[fd].id)
    ELSE [in |-> FALSE, err |-> FALSE, hup |-> FALSE]

NonZero(m) == m.in \/ m.err \/ m.hup

\* Edge-triggered: a readiness change puts a monitored descriptor on the
\* ready list once.
Notify(rdy, fd) ==
    IF fd \in monitored /\ fd \notin Range(rdy) THEN Append(rdy, fd) ELSE rdy

FdOf(c) == CHOOSE fd \in FDs : fds[fd] = Conn(c)
HasFd(c) == \E fd \in FDs : fds[fd] = Conn(c)
NotifyConn(rdy, c) == IF HasFd(c) THEN Notify(rdy, FdOf(c)) ELSE rdy

Event(fd) ==
    [fd |-> fd, in |-> Mask(fd).in, err |-> Mask(fd).err, hup |-> Mask(fd).hup,
     owner |-> fds[fd]]

\* event.events = EPOLLIN | EPOLLET
RegistrationEvents == {"EPOLLIN", "EPOLLET"}

\* One epoll_ctl(efd, EPOLL_CTL_ADD, fd, &event) call: the descriptor, the
\* events asked for, and whether the descriptor was already in the
\* interest set when the call was made.
Registration(fd) ==
    [fd |-> fd, events |-> RegistrationEvents, dup |-> fd \in monitored]

NoPass == [from |-> -1, avail |-> -1, logLen |-> -1]
PassOf(fd) ==
    IF IsConn(fd)
    THEN [from |-> rd[fds[fd].id], avail |-> wr[fds[fd].id] - rd[fds[fd].id],
          logLen |-> Len(log)]
    ELSE [from |-> 0, avail |-> 0, logLen |-> Len(log)]

\* ------------------------------------------------------------------ Init
Init ==
    /\ pc = "main"
    /\ argc \in ArgCounts
    /\ exitStatus = "running"
    /\ setup = <<>>
    /\ errno = "none"
    /\ server_fd = -1
    /\ efd = -1
    /\ fds = [fd \in FDs |-> IF fd <= 2 THEN Std ELSE Free]
    /\ nonblock = {}
    /\ listening = FALSE
    /\ lsnErr = FALSE
    /\ acceptQ = <<>>
    /\ monitored = {}
    /\ ready = <<>>
    /\ events_buffer = <<>>
    /\ new_events_count = 0
    /\ i = 0
    /\ client_socket_fd = -1
    /\ pass = NoPass
    /\ log = <<>>
    /\ registrations = <<>>
    /\ cstate = [c \in Clients |-> "idle"]
    /\ wr = [c \in Clients |-> 0]
    /\ rd = [c \in Clients |-> 0]
    /\ nul = [c \in Clients |-> {}]
    /\ eof = [c \in Clients |-> FALSE]
    /\ rst = [c \in Clients |-> FALSE]
    /\ steps = 0

\* ----------------------------------------------------------------- setup
\* The order of the setup calls of main and create_server_socket.
SetupOrder ==
    <<"args", "getaddrinfo", "socket", "bind", "nonblock", "listen",
      "epoll_create1", "epoll_ctl">>

Did(step, ok) == [step |-> step, ok |-> ok]

\* Where the process goes when a setup call fails: the runtime_error is
\* caught nowhere, so the process is terminated.
OnSetupFailureIgnored(next) == next
OnSetupFailure(next) == "aborted"

\* One checked setup call: on failure perror and throw.
SetupCall(at, next, ok) ==
    /\ pc = at
    /\ setup' = Append(setup, Did(at, ok))
    /\ IF ok
       THEN /\ pc' = next
            /\ log' = log
            /\ exitStatus' = exitStatus
       ELSE /\ pc' = OnSetupFailure(next)
            /\ log' = Append(log, Perror(at))
            /\ exitStatus' = IF pc' = "aborted" THEN "failure" ELSE exitStatus

\* main: if(argc != 2) { usage; exit(EXIT_FAILURE) }
CheckArgs ==
    /\ pc = "main"
    /\ setup' = Append(setup, Did("args", argc = ExpectedArgc))
    /\ IF argc # ExpectedArgc
       THEN /\ pc' = "exited"
            /\ exitStatus' = "failure"
            /\ log' = Append(log, Usage)
       ELSE /\ pc' = "getaddrinfo"
            /\ UNCHANGED <<exitStatus, log>>
    /\ UNCHANGED <<argc, registrations, errno, server_fd, efd, kernVars, loopVars, envVars, steps>>

GetAddrInfo ==
    /\ \E ok \in BOOLEAN : SetupCall("getaddrinfo", "socket", ok)
    /\ UNCHANGED <<argc, registrations, errno, server_fd, efd, kernVars, loopVars, envVars, steps>>

Socket ==
    /\ \E ok \in BOOLEAN :
          /\ SetupCall("socket", "bind", ok)
          /\ IF ok
             THEN /\ server_fd' = LowestFree
                  /\ fds' = [fds EXCEPT ![LowestFree] = Listener]
             ELSE UNCHANGED <<server_fd, fds>>
    /\ UNCHANGED <<argc, registrations, errno, efd, nonblock, listening, lsnErr, acceptQ,
                   monitored, ready, loopVars, envVars, steps>>

Bind ==
    /\ \E ok \in BOOLEAN : SetupCall("bind", "nonblock", ok)
    /\ UNCHANGED <<argc, registrations, errno, server_fd, efd, kernVars, loopVars, envVars, steps>>

\* flags |= O_NONBLOCK; fcntl(fd, F_SETFL, flags): the descriptors in
\* non-blocking mode after the call.
LeftBlocking(set, fd) == set
SetNonBlocking(set, fd) == set \cup {fd}

\* make_socket_non_blocking: the results of fcntl are not looked at; on an
\* open socket F_GETFL / F_SETFL do not fail.
MakeNonBlocking ==
    /\ pc = "nonblock"
    /\ pc' = "listen"
    /\ setup' = Append(setup, Did("nonblock", TRUE))
    /\ nonblock' = SetNonBlocking(nonblock, server_fd)
    /\ UNCHANGED <<argc, registrations, exitStatus, errno, server_fd, efd, fds, listening, lsnErr,
                   acceptQ, monitored, ready, loopVars, log, envVars, steps>>

Listen ==
    /\ \E ok \in BOOLEAN :
          /\ SetupCall("listen", "epoll_create1", ok)
          /\ listening' = ok
    /\ UNCHANGED <<argc, registrations, errno, server_fd, efd, fds, nonblock, lsnErr, acceptQ,
                   monitored, ready, loopVars, envVars, steps>>

EpollCreate ==
    /\ \E ok \in BOOLEAN :
          /\ SetupCall("epoll_create1", "epoll_ctl", ok)
          /\ IF ok
             THEN /\ efd' = LowestFree
                  /\ fds' = [fds EXCEPT ![LowestFree] = Epoll]
             ELSE UNCHANGED <<efd, fds>>
    /\ UNCHANGED <<argc, registrations, errno, server_fd, nonblock, listening, lsnErr, acceptQ,
                   monitored, ready, loopVars, envVars, steps>>

\* epoll_ctl(efd, EPOLL_CTL_ADD, server_fd, EPOLLIN | EPOLLET); then
\* event_loop is entered.  A listener that is already readable when it is
\* added is put on the ready list.
RegisterListener ==
    /\ \E ok \in BOOLEAN :
          /\ SetupCall("epoll_ctl", "wait", ok)
          /\ registrations' = Append(registrations, Registration(server_fd))
          /\ IF ok
             THEN /\ monitored' = monitored \cup {server_fd}
                  /\ ready' = IF Mask(server_fd).in THEN Append(ready, server_fd) ELSE ready
             ELSE UNCHANGED <<monitored, ready>>
    /\ UNCHANGED <<argc, errno, server_fd, efd, fds, nonblock, listening, lsnErr,
                   acceptQ, loopVars, envVars, steps>>

\* ------------------------------------------------------------- close(fd)
\* close on a descriptor of the process: the number becomes free and the
\* kernel drops the descriptor from the epoll instance.  close on a number
\* that is not open fails with EBADF and changes nothing.
CloseFd(fd) ==
    IF IsOpen(fd)
    THEN /\ fds' = [fds EXCEPT ![fd] = Free]
         /\ nonblock' = nonblock \ {fd}
         /\ monitored' = monitored \ {fd}
         /\ ready' = Remove(ready, fd)
         /\ listening' = IF fds[fd] = Listener THEN FALSE ELSE listening
         /\ acceptQ' = IF fds[fd] = Listener THEN <<>> ELSE acceptQ
         /\ cstate' = [c \in Clients |->
                         IF fds[fd] = Conn(c) THEN "closed"
                         ELSE IF fds[fd] = Listener /\ cstate[c] = "queued" THEN "refused"
                         ELSE cstate[c]]
    ELSE UNCHANGED <<fds, nonblock, monitored, ready, listening, acceptQ, cstate>>

\* ------------------------------------------------------------ event_loop
LoopPcs == {"wait", "dispatch", "accept", "read"}

\* epoll_wait(efd, events_buffer, MAX_EVENTS, -1): blocks until a descriptor
\* on the ready list has something to report, and returns at most
\* MAX_EVENTS events in ready-list order; or fails (EINTR) and returns -1.
\* for(int i = 0; i < new_events_count; ...): whether the body is entered
\* with i = 0.
ForLoopEntersOnNonZero(n) == n # 0
ForLoopEnters(n) == 0 < n

EpollWait ==
    /\ pc = "wait"
    /\ LET live == SelectSeq(ready, LAMBDA fd : NonZero(Mask(fd)))
           n == Min(Len(live), MAX_EVENTS)
           got == [k \in 1 .. n |-> Event(live[k])]
       IN  \/ /\ n > 0
              /\ events_buffer' = got \o SubSeq(events_buffer, n + 1, Len(events_buffer))
              /\ new_events_count' = n
              /\ ready' = SubSeq(live, n + 1, Len(live))
              /\ UNCHANGED <<errno, steps>>
           \/ /\ steps < MaxEnvSteps
              /\ steps' = steps + 1
              /\ new_events_count' = -1
              /\ errno' = "EINTR"
              /\ UNCHANGED <<events_buffer, ready>>
    /\ i' = 0
    /\ pc' = IF ForLoopEnters(new_events_count') THEN "dispatch" ELSE "wait"
    /\ UNCHANGED <<argc, registrations, exitStatus, setup, server_fd, efd, fds, nonblock,
                   listening, lsnErr, acceptQ, monitored, client_socket_fd, pass, log, envVars>>

\* (event.events & EPOLLERR) || (event.events & EPOLLHUP) || !(event.events & EPOLLIN)
IsAbnormalUnlessReadable(ev) == ~ev.in
IsAbnormal(ev) == ev.err \/ ev.hup \/ ~ev.in

\* The descriptor the abnormal branch closes: close(event.data.fd).
ErrorCloseServerFd(ev) == server_fd
ErrorCloseFd(ev) == ev.fd

\* The for loop's i++ and i < new_events_count, then back to epoll_wait.
NextEventPcWaitsAgain == "wait"
NextEventPc == IF i + 1 < new_events_count THEN "dispatch" ELSE "wait"

\* After the abnormal branch: continue.
AfterErrorCloseFallsThrough(ev) == "read"
AfterErrorClose(ev) == NextEventPc

\* The body of the for loop up to the call of a drain routine.
Dispatch ==
    /\ pc = "dispatch"
    /\ LET ev == events_buffer[i + 1]
       IN  IF IsAbnormal(ev)
           THEN /\ log' = Append(log, Perror("epoll error"))
                /\ CloseFd(ErrorCloseFd(ev))
                /\ pc' = AfterErrorClose(ev)
                /\ i' = IF pc' = "read" THEN i ELSE i + 1
                /\ client_socket_fd' = IF pc' = "read" THEN ev.fd ELSE client_socket_fd
                /\ pass' = IF pc' = "read" THEN PassOf(ev.fd) ELSE pass
           ELSE IF server_fd = ev.fd
           THEN /\ pc' = "accept"
                /\ UNCHANGED <<log, i, client_socket_fd, pass, fds, nonblock, monitored,
                               ready, listening, acceptQ, cstate>>
           ELSE /\ pc' = "read"
                /\ client_socket_fd' = ev.fd
                /\ pass' = PassOf(ev.fd)
                /\ UNCHANGED <<log, i, fds, nonblock, monitored, ready, listening,
                               acceptQ, cstate>>
    /\ UNCHANGED <<argc, registrations, exitStatus, setup, errno, server_fd, efd, lsnErr,
                   events_buffer, new_events_count, wr, rd, nul, eof, rst, steps>>

\* ------------------------------------------------ accept_new_connections
\* One iteration of the while loop: accept, and for an accepted connection
\* setsockopt, getnameinfo and the log line, O_NONBLOCK, epoll_ctl ADD.
\* named: getnameinfo succeeded; added: epoll_ctl succeeded (it fails with
\* EEXIST for a descriptor that is already registered).  A failing epoll_ctl
\* throws, and nothing catches it.
\* The descriptor handed to epoll_ctl for an accepted connection.
RegisteredServerFd(infd) == server_fd
RegisteredFd(infd) == infd

\* epoll_ctl failed for the accepted connection: perror and throw; the
\* exception is caught nowhere, so the process is terminated.
OnAddFailureContinues(infd) == "accept"
OnAddFailure(infd) == "aborted"

\* accept reported "would block": break, and the pass returns.
AfterWouldBlockRetries(eno) == "accept"
AfterWouldBlock(eno) == NextEventPc

\* accept failed with another error: perror, break, and the pass returns.
AfterAcceptFailureThrows(eno) == "aborted"
AfterAcceptFailure(eno) == NextEventPc

AcceptStep ==
    /\ pc = "accept"
    /\ IF fds[server_fd] # Listener \/ acceptQ = <<>>
       THEN /\ errno' = IF fds[server_fd] # Listener THEN "EBADF" ELSE "EAGAIN"
            /\ log' = IF errno' = "EAGAIN" THEN log ELSE Append(log, Perror("accept"))
            /\ pc' = IF errno' = "EAGAIN" THEN AfterWouldBlock(errno')
                                          ELSE AfterAcceptFailure(errno')
            /\ i' = IF pc' = "accept" THEN i ELSE i + 1
            /\ UNCHANGED <<exitStatus, fds, nonblock, monitored, ready, acceptQ,
                           cstate, steps, registrations>>
       ELSE \/ /\ steps < MaxEnvSteps
               /\ steps' = steps + 1
               /\ errno' = "EMFILE"
               /\ log' = Append(log, Perror("accept"))
               /\ pc' = AfterAcceptFailure(errno')
               /\ i' = i + 1
               /\ UNCHANGED <<exitStatus, fds, nonblock, monitored, ready, acceptQ, cstate,
                              registrations>>
            \/ \E named \in BOOLEAN, added \in BOOLEAN :
                 LET c == Head(acceptQ)
                     infd == LowestFree
                 IN  /\ steps' = steps + (IF named THEN 0 ELSE 1) + (IF added THEN 0 ELSE 1)
                     /\ steps' <= MaxEnvSteps
                     /\ acceptQ' = Tail(acceptQ)
                     /\ fds' = [fds EXCEPT ![infd] = Conn(c)]
                     /\ cstate' = [cstate EXCEPT ![c] = "accepted"]
                     /\ nonblock' = SetNonBlocking(nonblock, infd)
                     /\ log' = log \o (IF named THEN <<AcceptedLine(infd, c)>> ELSE <<>>)
                                   \o (IF added THEN <<>> ELSE <<Perror("epoll_ctl")>>)
                     /\ registrations' = Append(registrations, Registration(RegisteredFd(infd)))
                     /\ added => RegisteredFd(infd) \notin monitored
                     /\ IF added
                        THEN /\ monitored' = monitored \cup {RegisteredFd(infd)}
                             /\ ready' = IF NonZero(ConnMask(c)) /\ RegisteredFd(infd) = infd
                                         THEN Append(ready, infd) ELSE ready
                             /\ pc' = "accept"
                             /\ UNCHANGED <<exitStatus, errno>>
                        ELSE /\ pc' = OnAddFailure(infd)
                             /\ exitStatus' = IF pc' = "aborted" THEN "failure" ELSE exitStatus
                             /\ errno' = "ENOSPC"
                             /\ UNCHANGED <<monitored, ready>>
                     /\ i' = i
    /\ UNCHANGED <<argc, setup, server_fd, efd, listening, lsnErr, events_buffer,
                   new_events_count, client_socket_fd, pass, wr, rd, nul, eof, rst>>

\* ------------------------------------------------------- read_input_data
\* count = read(client_socket_fd, buf, sizeof(buf)), with errno when -1.
ReadResult(fd) ==
    IF ~IsConn(fd) THEN [count |-> -1, errno |-> "EBADF"]
    ELSE LET c == fds[fd].id
         IN  IF wr[c] > rd[c] THEN [count |-> Min(wr[c] - rd[c], BufSize), errno |-> errno]
             ELSE IF rst[c] THEN [count |-> -1, errno |-> "ECONNRESET"]
             ELSE IF eof[c] THEN [count |-> 0, errno |-> errno]
             ELSE [count |-> -1, errno |-> "EAGAIN"]

\* buf[count] = 0: the index the terminator is stored at.
TerminatorIndex(count) == count

\* std::string(buf): the number of bytes printed for a chunk read from
\* stream positions from .. from+count-1 of client c.  The string ends at
\* the first zero byte.  When the terminator was stored outside the buffer
\* the behaviour is undefined: the string may end there or run on.
PrintedLens(c, from, count) ==
    LET zs == { p \in nul[c] : from <= p /\ p < from + count }
    IN  IF zs # {} THEN { (CHOOSE p \in zs : \A q \in zs : p <= q) - from }
        ELSE IF TerminatorIndex(count) < BufSize THEN {count}
        ELSE {count, count + 1}

\* The value of connection_must_be_closed when the loop is left.
CloseDecisionOnAnyFailure(count, eno) == count <= 0
CloseDecision(count, eno) == (count = -1 /\ eno # "EAGAIN") \/ count = 0

\* The loop is left on a failing read and on a read of 0 bytes.
LeavesLoopAfterOneRead(count) == TRUE
LeavesLoop(count) == count <= 0

\* One iteration of the while loop; the iteration that leaves the loop
\* includes the closing part after it.
ReadStep ==
    /\ pc = "read"
    /\ LET fd == client_socket_fd
           r == ReadResult(fd)
           c == IF IsConn(fd) THEN fds[fd].id ELSE 0
           chunk == IF r.count > 0
                    THEN { <<DataLine(fd, c, rd[c], r.count, len, TerminatorIndex(r.count))>> :
                             len \in PrintedLens(c, rd[c], r.count) }
                    ELSE { <<>> }
           closes == LeavesLoop(r.count) /\ CloseDecision(r.count, r.errno)
       IN  /\ rd' = IF r.count > 0 THEN [rd EXCEPT ![c] = rd[c] + r.count] ELSE rd
           /\ errno' = r.errno
           /\ \E line \in chunk :
                log' = log \o line
                       \o (IF r.count = -1 /\ r.errno # "EAGAIN" THEN <<Perror("read")>> ELSE <<>>)
                       \o (IF closes THEN <<ClosedLine(fd, c)>> ELSE <<>>)
           /\ IF closes
              THEN CloseFd(fd)
              ELSE UNCHANGED <<fds, nonblock, monitored, ready, listening, acceptQ, cstate>>
           /\ IF LeavesLoop(r.count)
              THEN /\ pc' = NextEventPc
                   /\ i' = i + 1
                   /\ pass' = NoPass
              ELSE /\ pc' = "read"
                   /\ UNCHANGED <<i, pass>>
    /\ UNCHANGED <<argc, registrations, exitStatus, setup, server_fd, efd, lsnErr, events_buffer,
                   new_events_count, client_socket_fd, wr, nul, eof, rst, steps>>

\* ----------------------------------------------------------- environment
Running == pc \notin {"exited", "aborted"}

srvVars ==
    <<pc, argc, exitStatus, setup, errno, server_fd, efd, events_buffer,
      new_events_count, i, client_socket_fd, pass, log, registrations>>

\* Every client or kernel event counts against the bound of the run.
EnvStep ==
    /\ steps < MaxEnvSteps
    /\ steps' = steps + 1

\* A client's connection is established and queued on the listener.
ClientConnect(c) ==
    /\ Running
    /\ EnvStep
    /\ listening
    /\ cstate[c] = "idle"
    /\ cstate' = [cstate EXCEPT ![c] = "queued"]
    /\ acceptQ' = Append(acceptQ, c)
    /\ ready' = Notify(ready, server_fd)
    /\ UNCHANGED <<srvVars, fds, nonblock, listening, lsnErr, monitored, wr, rd, nul,
                   eof, rst>>

\* A client writes; the bytes arrive in the connection's receive buffer.
ClientSend(c, w) ==
    /\ Running
    /\ EnvStep
    /\ cstate[c] \in {"queued", "accepted"}
    /\ ~eof[c] /\ ~rst[c]
    /\ nul' = [nul EXCEPT ![c] = IF w.nul >= 0 THEN nul[c] \cup {wr[c] + w.nul} ELSE nul[c]]
    /\ wr' = [wr EXCEPT ![c] = wr[c] + w.n]
    /\ ready' = NotifyConn(ready, c)
    /\ UNCHANGED <<srvVars, fds, nonblock, listening, lsnErr, acceptQ, monitored,
                   cstate, rd, eof, rst>>

\* A client shuts down its write side (FIN).
ClientShutdown(c) ==
    /\ Running
    /\ EnvStep
    /\ cstate[c] \in {"queued", "accepted"}
    /\ ~eof[c] /\ ~rst[c]
    /\ eof' = [eof EXCEPT ![c] = TRUE]
    /\ ready' = NotifyConn(ready, c)
    /\ UNCHANGED <<srvVars, fds, nonblock, listening, lsnErr, acceptQ, monitored,
                   cstate, wr, rd, nul, rst>>

\* A client terminates abruptly (RST).
ClientReset(c) ==
    /\ Running
    /\ EnvStep
    /\ cstate[c] \in {"queued", "accepted"}
    /\ ~rst[c]
    /\ rst' = [rst EXCEPT ![c] = TRUE]
    /\ ready' = NotifyConn(ready, c)
    /\ UNCHANGED <<srvVars, fds, nonblock, listening, lsnErr, acceptQ, monitored,
                   cstate, wr, rd, nul, eof>>

\* A connection that is still queued is removed from the listener's queue
\* by an asynchronous network error before the server accepts it.
ConnectionAborted(c) ==
    /\ Running
    /\ EnvStep
    /\ cstate[c] = "queued"
    /\ cstate' = [cstate EXCEPT ![c] = "refused"]
    /\ acceptQ' = Remove(acceptQ, c)
    /\ UNCHANGED <<srvVars, fds, nonblock, listening, lsnErr, monitored, ready, wr, rd,
                   nul, eof, rst>>

\* The kernel flags an error condition on the listening socket.
ListenerError ==
    /\ pc \in LoopPcs
    /\ EnvStep
    /\ server_fd \in monitored
    /\ ~lsnErr
    /\ lsnErr' = TRUE
    /\ ready' = Notify(ready, server_fd)
    /\ UNCHANGED <<srvVars, fds, nonblock, listening, acceptQ, monitored, envVars>>

Next ==
    \/ CheckArgs
    \/ GetAddrInfo
    \/ Socket
    \/ Bind
    \/ MakeNonBlocking
    \/ Listen
    \/ EpollCreate
    \/ RegisterListener
    \/ EpollWait
    \/ Dispatch
    \/ AcceptStep
    \/ ReadStep
    \/ \E c \in Clients : ClientConnect(c)
    \/ \E c \in Clients, w \in Writes : ClientSend(c, w)
    \/ \E c \in Clients : ClientShutdown(c)
    \/ \E c \in Clients : ClientReset(c)
    \/ \E c \in Clients : ConnectionAborted(c)
    \/ ListenerError

Spec == Init /\ [][Next]_vars

\* ================================================================ claims
DataLinesOf(c) == SelectSeq(log, LAMBDA l : l.kind = "data" /\ l.conn = c)
ClosedLinesOf(c) == SelectSeq(log, LAMBDA l : l.kind = "closed" /\ l.conn = c)
IsPerror(l) == l.kind \notin {"usage", "accepted", "data", "closed"}

RECURSIVE SumCounts(_)
SumCounts(ls) == IF ls = <<>> THEN 0 ELSE Head(ls).count + SumCounts(Tail(ls))

AllSetupOk == [k \in 1 .. Len(SetupOrder) |-> Did(SetupOrder[k], TRUE)]
LoopEntered == setup = AllSetupOk

\* The server is blocked in epoll_wait and nothing will wake it.
Quiescent == pc = "wait" /\ \A fd \in Range(ready) : ~NonZero(Mask(fd))

\* C1: an accept-drain pass returns only after an accept attempt reported
\* "would block", and then no connection is left in the queue unless the
\* listener is on the ready list again.
C1_AcceptDrainsCompletely ==
    [][ (pc = "accept" /\ pc' \in {"dispatch", "wait"})
          => /\ errno' = "EAGAIN"
             /\ acceptQ' = <<>> \/ server_fd \in Range(ready') ]_vars

\* C2: in a run without resets, errors or failures, whenever the server is
\* back in epoll_wait with nothing to wake it, every client that connected
\* has been accepted, and for each of them the logged chunks are the bytes
\* it sent: chunk after chunk, each printed with exactly the bytes read.
C2_AllAcceptedAndLoggedAsSent ==
    (Quiescent /\ ~lsnErr /\ (\A c \in Clients : ~rst[c])
               /\ (\A k \in 1 .. Len(log) : ~IsPerror(log[k])))
      => \A c \in Clients :
           /\ cstate[c] # "queued"
           /\ cstate[c] \in {"accepted", "closed"}
                => /\ SumCounts(DataLinesOf(c)) = wr[c]
                   /\ \A k \in 1 .. Len(DataLinesOf(c)) :
                        DataLinesOf(c)[k].len = DataLinesOf(c)[k].count

\* The chunk lengths C3 states for a pass that starts with b bytes.
ExpectedChunks(b) ==
    LET n == (b + BufSize - 1) \div BufSize
    IN  [k \in 1 .. n |-> IF k < n THEN BufSize ELSE b - BufSize * (n - 1)]

\* C3: a drain pass that starts with B > 0 bytes available, during which
\* no more bytes arrive and the peer neither shuts down nor resets, logs
\* ceil(B/512) chunks of 512 bytes, the last of the rest, and ends on
\* "would block".
C3_DrainPassChunks ==
    [][ (/\ pc = "read"
         /\ pc' # "read"
         /\ IsConn(client_socket_fd)
         /\ pass.avail > 0
         /\ wr[fds[client_socket_fd].id] = pass.from + pass.avail
         /\ ~eof[fds[client_socket_fd].id]
         /\ ~rst[fds[client_socket_fd].id])
          => /\ errno' = "EAGAIN"
             /\ [k \in 1 .. Len(log') - pass.logLen |-> log'[pass.logLen + k].len]
                  = ExpectedChunks(pass.avail)
             /\ \A k \in pass.logLen + 1 .. Len(log') : log'[k].kind = "data" ]_vars

Graceful(c) == eof[c] /\ ~rst[c]

\* C4: a closure line of a connection comes after all of the connection's
\* chunk lines and is its only one; once it is logged the descriptor is
\* closed and the number is monitored only if a later connection reuses
\* it.  For a client that sent data and shut its write side down, every
\* byte it sent was read into a logged chunk before the closure line, and
\* the server does not go back to sleep with such a connection still open.
C4_GracefulClose ==
    \A c \in Clients :
      /\ \A k \in 1 .. Len(log) :
           (log[k].kind = "closed" /\ log[k].conn = c)
             => /\ \A j \in 1 .. Len(log) :
                     (log[j].kind \in {"data", "closed"} /\ log[j].conn = c /\ j # k) =>
                        (j < k /\ log[j].kind = "data")
                /\ cstate[c] = "closed"
                /\ ~HasFd(c)
                /\ log[k].fd \in monitored => IsConn(log[k].fd)
                /\ Graceful(c) => SumCounts(DataLinesOf(c)) = wr[c]
      /\ (Quiescent /\ Graceful(c) /\ cstate[c] \in {"accepted", "closed"})
           => /\ Len(ClosedLinesOf(c)) = 1
              /\ SumCounts(DataLinesOf(c)) = wr[c]

\* C4 witness: a client sent "ping" and shut down; its chunk is logged,
\* then its closure, and its descriptor is gone from the monitored set.
C4_Witness ==
    \E c \in Clients :
      /\ Graceful(c) /\ wr[c] = 4
      /\ Len(DataLinesOf(c)) = 1
      /\ Len(ClosedLinesOf(c)) = 1
      /\ ClosedLinesOf(c)[1].fd \notin monitored

\* The server is about to handle a failure of one connection: a read that
\* fails with an error other than "would block", or an event flagged
\* error / hangup for a connection.  The step that handles it is the one
\* that moves on to the next event (i' = i + 1).
ReadFailureAt(fd) ==
    /\ pc = "read" /\ client_socket_fd = fd /\ IsConn(fd)
    /\ ReadResult(fd).count = -1 /\ ReadResult(fd).errno # "EAGAIN"
ErrorEventAt(fd) ==
    /\ pc = "dispatch" /\ events_buffer[i + 1].fd = fd /\ IsConn(fd)
    /\ events_buffer[i + 1].err \/ events_buffer[i + 1].hup

\* C5: handling the failure of one connection closes that descriptor and
\* nothing else: every other descriptor, the listener, the monitored set
\* and the other connections' streams are as before, and the loop goes on.
\* And the server does not go back to sleep with unread bytes on a
\* connection that is still monitored.
C5_FailureIsolation ==
    /\ [][ \A fd \in FDs :
             ((ReadFailureAt(fd) \/ ErrorEventAt(fd)) /\ i' = i + 1)
               => /\ fds' = [fds EXCEPT ![fd] = Free]
                  /\ monitored' = monitored \ {fd}
                  /\ listening' = listening
                  /\ acceptQ' = acceptQ
                  /\ \A c \in Clients :
                       fds[fd] # Conn(c) =>
                         /\ cstate'[c] = cstate[c]
                         /\ rd'[c] = rd[c]
                         /\ wr'[c] = wr[c]
                  /\ pc' \in LoopPcs ]_vars
    /\ [](Quiescent =>
            \A fd \in monitored : IsConn(fd) => rd[fds[fd].id] = wr[fds[fd].id])

\* C5 witness: one connection was reset and closed on the error path, and
\* a chunk of another connection was logged after that.
C5_Witness ==
    \E c, d \in Clients, k, j \in 1 .. Len(log) :
      /\ c # d
      /\ rst[c] /\ cstate[c] = "closed"
      /\ IsPerror(log[k]) /\ k < j
      /\ log[j].kind = "data" /\ log[j].conn = d
      /\ HasFd(d) /\ FdOf(d) \in monitored

\* C6: once the event loop is entered the process stays in it.
C6_LoopNeverTerminates == LoopEntered => pc \in LoopPcs

\* C7: while the event loop runs the listening socket is open and
\* monitored.
C7_ListenerStaysOpen ==
    LoopEntered => (fds[server_fd] = Listener /\ server_fd \in monitored)

\* C8: every chunk is handled inside the buffer and printed with exactly
\* count bytes: the terminator index is in 0 .. 511 and len = count.
C8_BufferBoundary ==
    \A k \in 1 .. Len(log) :
      log[k].kind = "data" =>
        /\ log[k].count \in 1 .. BufSize
        /\ log[k].idx \in 0 .. BufSize - 1
        /\ log[k].len = log[k].count

\* The events of the current batch that are being or still to be handled.
PendingEvents ==
    IF pc \in {"dispatch", "accept", "read"} THEN i + 1 .. new_events_count ELSE {}

\* C9: every event being or still to be handled names a descriptor that
\* is open and belongs to the socket the event was produced for; the
\* Reader runs on an open connection, the one its event was produced for.
C9_NoStaleDispatch ==
    /\ \A k \in PendingEvents :
         /\ IsOpen(events_buffer[k].fd)
         /\ fds[events_buffer[k].fd] = events_buffer[k].owner
    /\ pc = "read" =>
         /\ IsConn(client_socket_fd)
         /\ client_socket_fd = events_buffer[i + 1].fd

\* C9 witness: the Reader runs on a descriptor number that an earlier,
\* closed connection had.
C9_Witness ==
    /\ pc = "read"
    /\ \E k \in 1 .. Len(log) :
         /\ log[k].kind = "closed"
         /\ log[k].fd = client_socket_fd
         /\ log[k].conn # fds[client_socket_fd].id

\* C10: the loop is entered only when every setup call succeeded, in the
\* order of SetupOrder; after a failed call nothing more is done, the
\* process has ended with a failure status, and no connection is accepted.
C10_StartupAllOrNothing ==
    /\ pc \in LoopPcs => setup = AllSetupOk
    /\ \A k \in 1 .. Len(setup) : setup[k].step = SetupOrder[k]
    /\ \A k \in 1 .. Len(setup) :
         ~setup[k].ok =>
           /\ k = Len(setup)
           /\ pc \in {"exited", "aborted"}
           /\ exitStatus = "failure"
           /\ events_buffer = <<>>
           /\ \A fd \in FDs : ~IsConn(fd)
           /\ \A j \in 1 .. Len(log) : log[j].kind # "accepted"

\* C10 witness: the last setup call, the registration of the listener,
\* failed and the process ended.
C10_Witness ==
    /\ Len(setup) = Len(SetupOrder)
    /\ ~setup[Len(setup)].ok
    /\ exitStatus = "failure"

\* A step of the server process (client events and kernel faults count
\* against steps).
ServerStep == steps' = steps

\* C11: an accept attempt made while the listener's queue is empty reports
\* "would block" and the pass returns: nothing is logged, no descriptor is
\* opened or registered, the monitored set is as before and the loop moves
\* on to the next event.  And when a wait returns no event, nothing is
\* dispatched before the next wait: the loop is in a handler only with a
\* positive event count.
C11_IdleListener ==
    /\ [][ (pc = "accept" /\ ServerStep /\ acceptQ = <<>> /\ fds[server_fd] = Listener)
             => /\ errno' = "EAGAIN"
                /\ pc' \in {"dispatch", "wait"}
                /\ i' = i + 1
                /\ log' = log
                /\ fds' = fds
                /\ monitored' = monitored ]_vars
    /\ [][ (pc = "wait" /\ new_events_count' <= 0) => pc' = "wait" ]_vars
    /\ [](pc \in {"dispatch", "accept", "read"} => new_events_count > 0)

\* C11 witness: the only connection ever queued was dropped before the
\* server got to it, and the accept-drain pass run for its notification
\* ended on "would block" with nothing accepted.
C11_Witness ==
    /\ LoopEntered
    /\ pc \in {"dispatch", "wait"}
    /\ errno = "EAGAIN"
    /\ fds[server_fd] = Listener
    /\ \E c \in Clients : cstate[c] = "refused"
    /\ \A c \in Clients : cstate[c] \in {"idle", "refused"}
    /\ \A k \in 1 .. Len(log) : log[k].kind # "accepted"

\* C12: the step that dispatches an event: if the mask has the error or
\* the hangup flag or lacks the readable flag, the event's descriptor is
\* closed and the loop moves on to the next event, with neither drain
\* routine entered; otherwise the Acceptor is entered if the descriptor is
\* the listening socket, and otherwise the Reader is entered on the event's
\* descriptor, and nothing is closed.
C12_DispatchRule ==
    [][ (pc = "dispatch" /\ ServerStep)
          => LET ev == events_buffer[i + 1]
             IN  IF ev.err \/ ev.hup \/ ~ev.in
                 THEN /\ fds'[ev.fd] = Free
                      /\ ev.fd \notin monitored'
                      /\ pc' \in {"dispatch", "wait"}
                      /\ i' = i + 1
                      /\ rd' = rd
                 ELSE IF ev.fd = server_fd
                 THEN /\ pc' = "accept"
                      /\ fds' = fds
                 ELSE /\ pc' = "read"
                      /\ client_socket_fd' = ev.fd
                      /\ fds' = fds ]_vars

\* C12 witness: all three branches were taken: a connection was accepted,
\* a chunk was read, and a reset connection was closed by the abnormal
\* branch (it has no closure line, which only the Reader writes).
C12_Witness ==
    /\ \E k \in 1 .. Len(log) : log[k].kind = "accepted"
    /\ \E k \in 1 .. Len(log) : log[k].kind = "data"
    /\ \E k \in 1 .. Len(log) : log[k].kind = "perror:epoll error"
    /\ \E c \in Clients : rst[c] /\ cstate[c] = "closed" /\ ClosedLinesOf(c) = <<>>

\* C13: the events of a batch are handled one at a time in buffer order.
\* The batch is not touched while it is handled; handling starts at the
\* first event; a drain routine is entered only from the dispatch of the
\* current event and runs for that event; the index moves by one, and only
\* in the step that ends the handling of the current event; and the wait
\* is called again only when the index has reached the event count.
C13_EventsInOrder ==
    /\ [][ pc # "wait" =>
             (events_buffer' = events_buffer /\ new_events_count' = new_events_count) ]_vars
    /\ [][ (pc = "wait" /\ pc' # "wait") => (pc' = "dispatch" /\ i' = 0) ]_vars
    /\ [][ (pc' \in {"accept", "read"} /\ pc' # pc) => (pc = "dispatch" /\ i' = i) ]_vars
    /\ [][ (pc \in {"dispatch", "accept", "read"}) =>
             (i' = i \/ (i' = i + 1 /\ pc' \in {"dispatch", "wait"})) ]_vars
    /\ [][ (pc \in {"dispatch", "accept", "read"} /\ pc' = "dispatch") =>
             i' < new_events_count ]_vars
    /\ [][ (pc # "wait" /\ pc' = "wait") => i' = new_events_count ]_vars
    /\ [](pc \in {"dispatch", "accept", "read"} => i < new_events_count)
    /\ [](pc = "accept" => events_buffer[i + 1].fd = server_fd)
    /\ [](pc = "read" => events_buffer[i + 1].fd = client_socket_fd)

\* C13 witness: a batch of two events, one of the listening socket and one
\* of a connection, has been handled to the end and the loop is back in
\* the wait.
C13_Witness ==
    /\ pc = "wait"
    /\ new_events_count = 2
    /\ i = 2
    /\ \E j, k \in 1 .. 2 :
         /\ events_buffer[j].owner = Listener
         /\ events_buffer[k].owner.kind = "conn"

\* C14: the step that ends a Reader drain pass.  The pass ends only on a
\* read that returned 0 or failed.  It closes the connection exactly when
\* that read returned 0 or failed with an error other than "would block":
\* then the closure line is logged last and the descriptor is closed and
\* unmonitored.  When the read reported "would block" the descriptor table
\* and the monitored set are as before and nothing is logged.
C14_ReaderOutcome ==
    [][ (pc = "read" /\ pc' # "read")
          => LET fd == client_socket_fd
                 r == ReadResult(fd)
             IN  /\ r.count <= 0
                 /\ errno' = r.errno
                 /\ IF r.count = 0 \/ (r.count = -1 /\ r.errno # "EAGAIN")
                    THEN /\ fds'[fd] = Free
                         /\ fd \notin monitored'
                         /\ log'[Len(log')] = ClosedLine(fd, fds[fd].id)
                    ELSE /\ r.errno = "EAGAIN"
                         /\ fds' = fds
                         /\ monitored' = monitored
                         /\ log' = log ]_vars

\* C14 witness: a pass has read a connection's bytes and ended on "would
\* block"; the connection is open and monitored and has no closure line.
C14_Witness ==
    /\ pc \in {"dispatch", "wait"}
    /\ errno = "EAGAIN"
    /\ \E c \in Clients :
         /\ cstate[c] = "accepted"
         /\ rd[c] = wr[c] /\ wr[c] > 0
         /\ HasFd(c) /\ FdOf(c) \in monitored
         /\ ClosedLinesOf(c) = <<>>
         /\ log[Len(log)].kind = "data" /\ log[Len(log)].conn = c

\* C15: the step in which accept fails with an error other than "would
\* block" (it logs the accept diagnostic): the pass returns and the loop
\* moves on to the next event, the process keeps running, and the
\* descriptor table, the monitored set and the queue are as before, so the
\* listening socket and the connections accepted earlier in the pass stay
\* open and registered.
C15_AcceptFailureEndsPass ==
    [][ (pc = "accept" /\ log' = Append(log, Perror("accept")))
          => /\ errno' \notin {"EAGAIN", "none"}
             /\ pc' \in {"dispatch", "wait"}
             /\ i' = i + 1
             /\ exitStatus' = "running"
             /\ fds' = fds
             /\ nonblock' = nonblock
             /\ monitored' = monitored
             /\ acceptQ' = acceptQ ]_vars

\* C15 witness: a pass accepted one connection and the next accept failed;
\* the loop runs on with the listening socket and that connection open and
\* monitored.
C15_Witness ==
    /\ pc \in LoopPcs
    /\ errno = "EMFILE"
    /\ fds[server_fd] = Listener /\ server_fd \in monitored
    /\ \E k \in 1 .. Len(log) - 1 :
         /\ log[k].kind = "accepted"
         /\ log[k + 1] = Perror("accept")
         /\ IsConn(log[k].fd) /\ log[k].fd \in monitored

\* C16: every monitored descriptor is in non-blocking mode, and a
\* descriptor that enters the monitored set is in non-blocking mode in the
\* state in which it enters; the listening socket is non-blocking before
\* the step that registers it.
C16_MonitoredNonBlocking ==
    /\ [](monitored \subseteq nonblock)
    /\ [](pc = "epoll_ctl" => server_fd \in nonblock)
    /\ [][ \A fd \in monitored' \ monitored : fd \in nonblock' ]_vars

\* C16 witness: the listening socket and an accepted connection are both
\* monitored.
C16_Witness ==
    /\ server_fd \in monitored
    /\ fds[server_fd] = Listener
    /\ \E fd \in monitored : IsConn(fd)

\* C17: no epoll_ctl ADD call was made for a descriptor that was in the
\* monitored set at the time of the call, every call asked for readable
\* readiness in edge-triggered mode and nothing else, and only open
\* descriptors are monitored.
C17_RegisteredOnce ==
    /\ \A k \in 1 .. Len(registrations) :
         /\ ~registrations[k].dup
         /\ registrations[k].events = {"EPOLLIN", "EPOLLET"}
    /\ \A fd \in monitored : IsOpen(fd)

\* C17 witness: a descriptor number was registered, closed, handed out
\* again by accept and registered a second time.
C17_Witness ==
    \E j, k \in 1 .. Len(registrations) :
      /\ j < k
      /\ registrations[j].fd = registrations[k].fd
      /\ registrations[k].fd \in monitored

\* C18: every close the loop issues is on a descriptor that is at that
\* moment an open connection, the one the event was produced for, and the
\* descriptor is closed and out of the monitored set after the step.  The
\* loop issues close in the abnormal branch of the dispatch and at the end
\* of a Reader pass that logs a closure.
C18_ClosedExactlyOnce ==
    [][ /\ (pc = "dispatch" /\ ServerStep /\ IsAbnormal(events_buffer[i + 1]))
             => /\ IsConn(events_buffer[i + 1].fd)
                /\ fds[events_buffer[i + 1].fd] = events_buffer[i + 1].owner
                /\ fds'[events_buffer[i + 1].fd] = Free
                /\ events_buffer[i + 1].fd \notin monitored'
        /\ (pc = "read" /\ Len(log') > Len(log) /\ log'[Len(log')].kind = "closed")
             => /\ IsConn(client_socket_fd)
                /\ fds[client_socket_fd] = events_buffer[i + 1].owner
                /\ fds'[client_socket_fd] = Free
                /\ client_socket_fd \notin monitored' ]_vars

\* C19: whenever the loop is about to wait, the open connection
\* descriptors are exactly the monitored descriptors other than the
\* listening socket, and every monitored descriptor is open.
C19_OpenIffMonitored ==
    pc = "wait" =>
      /\ { fd \in FDs : IsConn(fd) } = { fd \in monitored : fds[fd] # Listener }
      /\ \A fd \in monitored : IsOpen(fd)

\* C19 witness: the loop is about to wait after it accepted two
\* connections and closed one of them; the other is open and monitored.
C19_Witness ==
    /\ pc = "wait"
    /\ \E c, d \in Clients :
         /\ cstate[c] = "accepted" /\ HasFd(c) /\ FdOf(c) \in monitored
         /\ cstate[d] = "closed"

\* C20: a wait that returns a negative count is followed by the wait
\* again: in that step nothing is dispatched, the descriptor table, the
\* monitored set, the event buffer, the log and the registrations are as
\* before; and an event is handled only at an index below the count of
\* the latest wait, so no entry left over from an earlier wait is handled.
C20_WaitFailure ==
    /\ [][ (pc = "wait" /\ new_events_count' < 0)
             => /\ pc' = "wait"
                /\ fds' = fds
                /\ monitored' = monitored
                /\ events_buffer' = events_buffer
                /\ registrations' = registrations
                /\ log' = log ]_vars
    /\ [](pc \in {"dispatch", "accept", "read"} => i + 1 \in 1 .. new_events_count)

\* C20 witness: the wait failed after an earlier wait had filled the
\* buffer; the loop is in the wait again with a connection still open.
C20_Witness ==
    /\ pc = "wait"
    /\ new_events_count = -1
    /\ errno = "EINTR"
    /\ events_buffer # <<>>
    /\ \E fd \in monitored : IsConn(fd)

====
